---------------------------- MODULE Spec2Model ----------------------------
(***************************************************************************)
(* Model of the behave test harness of the CCX Notification Service:       *)
(*   features/src/process_output.py        (output capture and filtering)  *)
(*   features/steps/notification_service.py (test steps)                   *)
(*                                                                         *)
(* Python values are modelled as follows.                                  *)
(*   str    a sequence of one-character strings                            *)
(*   bytes  a sequence of integers 0..255                                  *)
(*   list   a sequence                                                     *)
(*   a value that may be None, or an attribute that may be missing, is a   *)
(*   tagged record [t |-> <type name>, v |-> <value>]                      *)
(***************************************************************************)
EXTENDS Integers, Sequences, FiniteSets

VARIABLES
    pc,          \* position of the driver of the pure functions
    text,        \* str handed to filter_coverage_message
    partA,       \* str A of a text built as A + COVERAGE_MESSAGE + "\n" + B
    partB,       \* str B of that text
    filtered,    \* filter_coverage_message(text)
    refiltered,  \* filter_coverage_message(filtered)
    lines,       \* list of str handed to the line filter
    kept,        \* the list the line filter returned
    max_age,     \* argument of parse_max_age
    parsed,      \* outcome of parse_max_age
    table,       \* context.table of the check_logs step
    context,     \* behave's scenario context (the attributes the steps use)
    last,        \* the step that ran last: its name, inputs and outcome
    captured,    \* exit code of the process captured last, None before
    launched,    \* argument list of the process started last, None before
    history      \* what the flag steps were given so far

vars == <<pc, text, partA, partB, filtered, refiltered, lines, kept,
          max_age, parsed, table, context, last, captured, launched,
          history>>

-----------------------------------------------------------------------------
(* Bounds of the model *)

\* number of fragments a text handed to filter_coverage_message is built from
MaxPieces == 4
\* number of fragments each of A and B is built from
MaxPartPieces == 2
\* length of a list handed to the line filter
MaxLines == 3
\* length of a string handed to parse_max_age
MaxAgeLen == 5
\* number of rows of the table of check_logs
MaxRows == 2
\* number of fragments the standard output of a process is built from
MaxOutPieces == 1

-----------------------------------------------------------------------------
(* Strings *)

\* process_output.py:24
COVERAGE_MESSAGE ==
    <<"w", "a", "r", "n", "i", "n", "g", ":", " ", "G", "O", "C", "O", "V",
      "E", "R", "D", "I", "R", " ", "n", "o", "t", " ", "s", "e", "t", ",",
      " ", "n", "o", " ", "c", "o", "v", "e", "r", "a", "g", "e", " ", "d",
      "a", "t", "a", " ", "e", "m", "i", "t", "t", "e", "d">>

\* the "\n" of COVERAGE_MESSAGE + "\n" and of split("\n")
NL == <<"\n">>

\* str.find(sub, start): the least index >= start (1-based) at which sub
\* occurs in s, 0 when there is none
Find(s, sub, start) ==
    LET hits == {i \in start..(Len(s) - Len(sub) + 1) :
                    SubSeq(s, i, i + Len(sub) - 1) = sub}
    IN  IF hits = {} THEN 0 ELSE CHOOSE i \in hits : \A j \in hits : i <= j

\* sub in s
Contains(s, sub) == Find(s, sub, 1) # 0

\* str.replace(old, new) from index start on: occurrences are found left to
\* right, each search resuming right after the occurrence replaced before
RECURSIVE ReplaceFrom(_, _, _, _)
ReplaceFrom(s, old, new, start) ==
    LET at == Find(s, old, start)
    IN  IF at = 0
        THEN SubSeq(s, start, Len(s))
        ELSE SubSeq(s, start, at - 1) \o new
                \o ReplaceFrom(s, old, new, at + Len(old))

\* str.replace(old, new), old not empty
Replace(s, old, new) == ReplaceFrom(s, old, new, 1)

\* str.split(sep) from index start on: the pieces between the occurrences of
\* sep; a string without sep is one piece, the empty string included
RECURSIVE SplitFrom(_, _, _)
SplitFrom(s, sep, start) ==
    LET at == Find(s, sep, start)
    IN  IF at = 0
        THEN <<SubSeq(s, start, Len(s))>>
        ELSE <<SubSeq(s, start, at - 1)>> \o SplitFrom(s, sep, at + Len(sep))

\* str.split(sep)
Split(s, sep) == SplitFrom(s, sep, 1)

-----------------------------------------------------------------------------
(* process_output.py: the two filters *)

\* a plausible slip: the line terminator is left out of the pattern
filter_coverage_message_keeps_newline(output) ==
    Replace(output, COVERAGE_MESSAGE, <<>>)

\* a plausible slip: only the first occurrence is removed
filter_coverage_message_first_only(output) ==
    LET at == Find(output, COVERAGE_MESSAGE \o NL, 1)
    IN  IF at = 0
        THEN output
        ELSE SubSeq(output, 1, at - 1)
                \o SubSeq(output, at + Len(COVERAGE_MESSAGE) + 1, Len(output))

\* filter_coverage_message(output)
filter_coverage_message(output) ==
    Replace(output, COVERAGE_MESSAGE \o NL, <<>>)

\* a plausible slip: the last line is never looked at
FilterCoverageLines_skips_last(output) ==
    IF output = <<>>
    THEN <<>>
    ELSE LET Keep(line) == line # COVERAGE_MESSAGE
         IN  SelectSeq(SubSeq(output, 1, Len(output) - 1), Keep)
                \o <<output[Len(output)]>>

\* a plausible slip: the marker is looked for inside the line
FilterCoverageLines_by_substring(output) ==
    LET Keep(line) == ~Contains(line, COVERAGE_MESSAGE)
    IN  SelectSeq(output, Keep)

\* [line for line in output if line != COVERAGE_MESSAGE]
RECURSIVE FilterCoverageLinesFrom(_, _)
FilterCoverageLinesFrom(output, i) ==
    IF i > Len(output)
    THEN <<>>
    ELSE (IF output[i] # COVERAGE_MESSAGE THEN <<output[i]>> ELSE <<>>)
            \o FilterCoverageLinesFrom(output, i + 1)

FilterCoverageLines(output) == FilterCoverageLinesFrom(output, 1)

-----------------------------------------------------------------------------
(* Inputs of the pure functions *)

\* the pieces the texts are built from: a line terminator, another character,
\* a whole marker line, and the marker cut in two
Fragments ==
    { NL, <<"x">>, COVERAGE_MESSAGE \o NL,
      SubSeq(COVERAGE_MESSAGE, 1, 48),
      SubSeq(COVERAGE_MESSAGE, 49, Len(COVERAGE_MESSAGE)) }

\* the texts built from at most n fragments
RECURSIVE Texts(_)
Texts(n) ==
    IF n = 0
    THEN {<<>>}
    ELSE LET shorter == Texts(n - 1)
         IN  shorter \cup {t \o f : t \in shorter, f \in Fragments}

\* elements of the lists handed to the line filter
LineValues ==
    { <<>>, <<"x">>, COVERAGE_MESSAGE, <<"x">> \o COVERAGE_MESSAGE }

\* the lists of at most n such lines
RECURSIVE LineLists(_)
LineLists(n) ==
    IF n = 0
    THEN {<<>>}
    ELSE LET shorter == LineLists(n - 1)
         IN  shorter \cup {Append(l, v) : l \in shorter, v \in LineValues}

\* value of a variable a specification does not use
Idle == <<>>

-----------------------------------------------------------------------------
(* The pure functions of process_output.py, called on bounded inputs *)

pureVars == <<pc, text, partA, partB, filtered, refiltered, lines, kept>>
ageVars == <<max_age, parsed>>
stepVars == <<table, context, last, captured, launched, history>>

\* filtered = filter_coverage_message(text)
CallFilter ==
    /\ pc = "input"
    /\ filtered' = filter_coverage_message(text)
    /\ pc' = "filtered"
    /\ UNCHANGED <<text, partA, partB, refiltered, lines, kept>>
    /\ UNCHANGED <<ageVars, stepVars>>

\* refiltered = filter_coverage_message(filtered)
CallFilterAgain ==
    /\ pc = "filtered"
    /\ refiltered' = filter_coverage_message(filtered)
    /\ pc' = "refiltered"
    /\ UNCHANGED <<text, partA, partB, filtered, lines, kept>>
    /\ UNCHANGED <<ageVars, stepVars>>

\* lines = text.split("\n")   (process_output.py:47, on decoded text)
SplitText ==
    /\ pc = "refiltered"
    /\ lines' = Split(text, NL)
    /\ pc' = "split"
    /\ UNCHANGED <<text, partA, partB, filtered, refiltered, kept>>
    /\ UNCHANGED <<ageVars, stepVars>>

\* kept = [line for line in lines if line != COVERAGE_MESSAGE]
\* (process_output.py:50)
FilterLines ==
    /\ pc = "split"
    /\ kept' = FilterCoverageLines(lines)
    /\ pc' = "normalized"
    /\ UNCHANGED <<text, partA, partB, filtered, refiltered, lines>>
    /\ UNCHANGED <<ageVars, stepVars>>

NextFilter == CallFilter \/ CallFilterAgain \/ SplitText \/ FilterLines

NextLines == FilterLines

IdleAge == max_age = Idle /\ parsed = Idle
IdleSteps ==
    /\ table = Idle /\ context = Idle /\ last = Idle /\ captured = Idle
    /\ launched = Idle /\ history = Idle

\* every text of at most MaxPieces fragments
InitFilter ==
    /\ pc = "input"
    /\ text \in Texts(MaxPieces)
    /\ partA = Idle /\ partB = Idle
    /\ filtered = Idle /\ refiltered = Idle /\ lines = Idle /\ kept = Idle
    /\ IdleAge /\ IdleSteps

\* every text A + COVERAGE_MESSAGE + "\n" + B, A and B of at most
\* MaxPartPieces fragments each
InitConcat ==
    /\ pc = "input"
    /\ partA \in Texts(MaxPartPieces)
    /\ partB \in Texts(MaxPartPieces)
    /\ text = partA \o COVERAGE_MESSAGE \o NL \o partB
    /\ filtered = Idle /\ refiltered = Idle /\ lines = Idle /\ kept = Idle
    /\ IdleAge /\ IdleSteps

\* every list of at most MaxLines lines
InitLines ==
    /\ pc = "split"
    /\ lines \in LineLists(MaxLines)
    /\ text = Idle /\ partA = Idle /\ partB = Idle
    /\ filtered = Idle /\ refiltered = Idle /\ kept = Idle
    /\ IdleAge /\ IdleSteps

SpecFilter == InitFilter /\ [][NextFilter]_vars
SpecConcat == InitConcat /\ [][NextFilter]_vars
SpecLines == InitLines /\ [][NextLines]_vars

-----------------------------------------------------------------------------
(* What the claims about the filters speak of *)

MarkerLine == COVERAGE_MESSAGE \o NL

\* the indices at which MARKER + "\n" occurs in s
Occurrences(s) ==
    {i \in 1..(Len(s) - Len(MarkerLine) + 1) :
        SubSeq(s, i, i + Len(MarkerLine) - 1) = MarkerLine}

\* s with the characters of every occurrence of MARKER + "\n" deleted and
\* the other characters kept in their order
WithoutOccurrences(s) ==
    LET occ == Occurrences(s)
        Remains(k) == \A i \in occ : k < i \/ k >= i + Len(MarkerLine)
        keptAt == SelectSeq([k \in 1..Len(s) |-> k], Remains)
    IN  [n \in 1..Len(keptAt) |-> s[keptAt[n]]]

\* every occurrence of MARKER + "\n" in s begins a line
OccurrencesBeginLines(s) ==
    \A i \in Occurrences(s) : i = 1 \/ s[i - 1] = "\n"

\* s does not end with an unterminated marker line
LastLineIsNotMarker(s) ==
    LET pieces == Split(s, NL) IN pieces[Len(pieces)] # COVERAGE_MESSAGE

NotMarker(line) == line # COVERAGE_MESSAGE

(* C1: for every input string S, filter_coverage_message(S) is S with every
   occurrence of MARKER + "\n" deleted and every other character kept in its
   order; when S has no occurrence the result is S. *)
C1_FilterDeletesEveryOccurrence ==
    pc # "input" =>
        /\ filtered = WithoutOccurrences(text)
        /\ (Occurrences(text) = {} => filtered = text)

\* a text with two occurrences and other characters has been filtered
C1_Witness ==
    /\ pc = "filtered"
    /\ Cardinality(Occurrences(text)) = 2
    /\ filtered # <<>>
    /\ Len(filtered) = Len(text) - 2 * Len(MarkerLine)

(* C2 as stated: filter_coverage_message is idempotent on every input. *)
C2_Idempotent ==
    pc = "refiltered" => refiltered = filtered

(* C2 as amended: on every input in which each occurrence of MARKER + "\n"
   begins a line, filtering twice gives what filtering once gives. *)
C2_IdempotentOnWholeLines ==
    (pc = "refiltered" /\ OccurrencesBeginLines(text)) => refiltered = filtered

\* a text whose marker lines all begin a line has been filtered twice
C2_Witness ==
    /\ pc = "refiltered"
    /\ OccurrencesBeginLines(text)
    /\ Cardinality(Occurrences(text)) = 2
    /\ filtered # text
    /\ filtered # <<>>

(* C3 as stated: for all A and B, filter_coverage_message of
   A + MARKER + "\n" + B is A + B. *)
C3_RemovesTheMiddle ==
    pc = "filtered" => filtered = partA \o partB

(* C3 as amended: for all A and B that contain no occurrence of
   MARKER + "\n", filter_coverage_message of A + MARKER + "\n" + B is
   A + B. *)
C3_RemovesTheSingleOccurrence ==
    (pc = "filtered" /\ Occurrences(partA) = {} /\ Occurrences(partB) = {})
        => filtered = partA \o partB

\* a text with the one occurrence between a non-empty A and a non-empty B has
\* been filtered
C3_Witness ==
    /\ pc = "filtered"
    /\ Occurrences(partA) = {} /\ Occurrences(partB) = {}
    /\ partA # <<>> /\ partB # <<>>
    /\ filtered = partA \o partB

(* C4: the line filter of process_generated_output returns exactly the
   elements that differ from the Coverage Marker Line, in their order; lines
   that only contain the marker are kept, the empty list gives the empty
   list. *)
C4_LineFilterKeepsTheOthers ==
    pc = "normalized" =>
        /\ kept = SelectSeq(lines, NotMarker)
        /\ (lines = <<>> => kept = <<>>)

\* a list with a marker line and a line that contains the marker has been
\* filtered
C4_Witness ==
    /\ pc = "normalized"
    /\ \E i, j \in 1..Len(lines) :
          /\ lines[i] = COVERAGE_MESSAGE
          /\ lines[j] = <<"x">> \o COVERAGE_MESSAGE
    /\ Len(kept) = Len(lines) - 1

-----------------------------------------------------------------------------
(* Python values of the test steps *)

None == [t |-> "NoneType", v |-> <<>>]
Bytes(b) == [t |-> "bytes", v |-> b]
PyInt(n) == [t |-> "int", v |-> n]
List(l) == [t |-> "list", v |-> l]
\* an attribute the context does not have: reading it raises AttributeError
Missing == [t |-> "missing", v |-> <<>>]
\* a subprocess.Popen after communicate(): what the process wrote and its
\* exit code
Popen(stdout, stderr, returncode) ==
    [t |-> "Popen",
     v |-> [stdout |-> stdout, stderr |-> stderr, returncode |-> returncode]]

\* the ASCII characters of the model's texts, in code order, and their
\* codes: UTF-8 encodes each as the one byte of its code
AsciiChars ==
    <<"\n", " ", ",", ":", "C", "D", "E", "G", "I", "O", "R", "V", "a",
      "c", "d", "e", "g", "i", "m", "n", "o", "r", "s", "t", "v", "w",
      "x">>

AsciiCodes ==
    <<10, 32, 44, 58, 67, 68, 69, 71, 73, 79, 82, 86, 97,
      99, 100, 101, 103, 105, 109, 110, 111, 114, 115, 116, 118, 119,
      120>>

\* the bytes that stand for one character each
AsciiBytes == {AsciiCodes[i] : i \in 1..Len(AsciiCodes)}

\* the character a one-byte UTF-8 sequence decodes to
Chr(b) == AsciiChars[CHOOSE i \in 1..Len(AsciiCodes) : AsciiCodes[i] = b]

\* the byte an ASCII character encodes to
Ord(c) == AsciiCodes[CHOOSE i \in 1..Len(AsciiChars) : AsciiChars[i] = c]

\* str.encode("utf-8") of ASCII text: the bytes literal of a text
Encode(str) == [i \in 1..Len(str) |-> Ord(str[i])]

\* whether bytes.decode("utf-8") returns: the bytes of the model are ASCII
\* bytes and 255, which is valid nowhere in UTF-8; decode raises
\* UnicodeDecodeError on it
Decodable(b) == \A i \in 1..Len(b) : b[i] \in AsciiBytes

\* bytes.decode("utf-8") of decodable bytes
Decode(b) == [i \in 1..Len(b) |-> Chr(b[i])]

-----------------------------------------------------------------------------
(* The capture operations *)

\* what a step did: the context it leaves and the exception it raised
Returned(ctx) == [context |-> ctx, raised |-> "none"]
Raised(ctx, exception) == [context |-> ctx, raised |-> exception]

\* bool(return_code): None and 0 are false
Truthy(value) == value # None /\ value # PyInt(0)

\* element in list
InList(element, l) == \E i \in 1..Len(l) : l[i] = element

\* a plausible slip: the streams are stored on the context before the exit
\* code is checked
process_generated_output_updates_first(ctx, out, return_code) ==
    IF out = None THEN Raised(ctx, "AssertionError")
    ELSE LET stdout == out.v.stdout
             stderr == out.v.stderr
             returncode == out.v.returncode
             early == [ctx EXCEPT !.stdout = stdout, !.stderr = stderr]
         IN  IF stderr # None THEN Raised(ctx, "AssertionError")
             ELSE IF stdout = None THEN Raised(ctx, "AssertionError")
             ELSE IF /\ Truthy(return_code)
                     /\ ~(returncode = 0 \/ PyInt(returncode) = return_code)
                  THEN Raised(early, "AssertionError")
             ELSE IF ~Decodable(stdout.v)
                  THEN Raised(early, "UnicodeDecodeError")
             ELSE LET output ==
                          FilterCoverageLines(Split(Decode(stdout.v), NL))
                  IN  Returned([early EXCEPT !.output = List(output),
                                             !.return_code = PyInt(returncode)])

\* process_generated_output(context, out, return_code)
process_generated_output(ctx, out, return_code) ==
    IF out = None THEN Raised(ctx, "AssertionError")
    ELSE LET stdout == out.v.stdout
             stderr == out.v.stderr
             returncode == out.v.returncode
         IN  IF stderr # None THEN Raised(ctx, "AssertionError")
             ELSE IF stdout = None THEN Raised(ctx, "AssertionError")
             ELSE IF /\ Truthy(return_code)
                     /\ ~(returncode = 0 \/ PyInt(returncode) = return_code)
                  THEN Raised(ctx, "AssertionError")
             ELSE IF ~Decodable(stdout.v)
                  THEN Raised(ctx, "UnicodeDecodeError")
             ELSE LET output ==
                          FilterCoverageLines(Split(Decode(stdout.v), NL))
                  IN  Returned([ctx EXCEPT !.output = List(output),
                                           !.stdout = stdout,
                                           !.stderr = stderr,
                                           !.return_code = PyInt(returncode)])

\* process_ccx_notification_service_output(context, out, return_codes);
\* the message of the exit code assertion decodes stdout, and is built only
\* when the assertion fails
process_ccx_notification_service_output(ctx, out, return_codes) ==
    IF out = None THEN Raised(ctx, "AssertionError")
    ELSE LET stdout == out.v.stdout
             stderr == out.v.stderr
             returncode == out.v.returncode
         IN  IF stderr # None THEN Raised(ctx, "AssertionError")
             ELSE IF stdout = None THEN Raised(ctx, "AssertionError")
             ELSE IF ~(returncode = 0 \/ InList(returncode, return_codes.v))
                  THEN IF Decodable(stdout.v)
                       THEN Raised(ctx, "AssertionError")
                       ELSE Raised(ctx, "UnicodeDecodeError")
             ELSE IF ~Decodable(stdout.v)
                  THEN Raised(ctx, "UnicodeDecodeError")
             ELSE LET output == Split(Decode(stdout.v), NL)
                  IN  Returned([ctx EXCEPT !.output = List(output),
                                           !.stdout = stdout,
                                           !.stderr = stderr,
                                           !.returncode = PyInt(returncode)])

\* check_status_code(context, expected_code); the message of the assertion
\* decodes context.stdout, and is built only when the assertion fails
check_status_code(ctx, expected_code) ==
    IF ctx.returncode = Missing THEN Raised(ctx, "AttributeError")
    ELSE IF ctx.returncode = PyInt(expected_code) THEN Returned(ctx)
    ELSE IF ctx.stdout = Missing THEN Raised(ctx, "AttributeError")
    ELSE IF ctx.stdout = None THEN Raised(ctx, "AttributeError")
    ELSE IF ~Decodable(ctx.stdout.v) THEN Raised(ctx, "UnicodeDecodeError")
    ELSE Raised(ctx, "AssertionError")

-----------------------------------------------------------------------------
(* The steps of a scenario *)

\* what a process can have written to standard output: a marker line,
\* another line, a byte that is not UTF-8
OutFragments == { Encode(COVERAGE_MESSAGE \o NL), Encode(<<"x", "\n">>), <<255>> }

RECURSIVE ByteTexts(_)
ByteTexts(n) ==
    IF n = 0
    THEN {<<>>}
    ELSE LET shorter == ByteTexts(n - 1)
         IN  shorter \cup {t \o f : t \in shorter, f \in OutFragments}

\* exit codes of a process: success, a failure, a dependency not available
ExitCodes == {0, 1, 4}

\* the processes handed to a capture step, after communicate(); out may be
\* None, and so may each stream
Processes ==
    {None} \cup
    { Popen(stdout, stderr, returncode) :
        stdout \in {None} \cup {Bytes(b) : b \in ByteTexts(MaxOutPieces)},
        stderr \in {None, Bytes(Encode(<<"x">>))},
        returncode \in ExitCodes }

\* return_code of process_generated_output: left out, or one exit code
ReturnCodeArguments == {None, PyInt(0), PyInt(4)}

\* return_codes of process_ccx_notification_service_output: a list
ReturnCodesArguments == {List(<<>>), List(<<4, 5, 9>>)}

\* the process is there, wrote nothing to stderr, and its stdout decodes
StreamsAsExpected(out) ==
    /\ out # None
    /\ out.v.stderr = None
    /\ out.v.stdout # None
    /\ Decodable(out.v.stdout.v)

ExitCodeOf(out) == IF out = None THEN None ELSE PyInt(out.v.returncode)

NoStep ==
    [step |-> "none", raised |-> "none", streams_ok |-> FALSE,
     returncode |-> None, argument |-> None]

\* a capture step has run on out
Captured(name, out, argument, result) ==
    /\ context' = result.context
    /\ last' = [step |-> name, raised |-> result.raised,
                streams_ok |-> StreamsAsExpected(out),
                returncode |-> ExitCodeOf(out), argument |-> argument]
    /\ captured' = IF result.raised = "none" THEN ExitCodeOf(out) ELSE captured
    /\ UNCHANGED <<pureVars, ageVars, table, launched, history>>

\* a step calls process_generated_output(context, out, return_code)
call_process_generated_output ==
    \E out \in Processes, return_code \in ReturnCodeArguments :
        Captured("process_generated_output", out, return_code,
                 process_generated_output(context, out, return_code))

\* a step calls process_ccx_notification_service_output(context, out,
\* return_codes)
call_process_ccx_notification_service_output ==
    \E out \in Processes, return_codes \in ReturnCodesArguments :
        Captured("process_ccx_notification_service_output", out, return_codes,
                 process_ccx_notification_service_output(context, out,
                                                         return_codes))

\* the step "the process should exit with status code set to
\* {expected_code:d}"
step_check_status_code ==
    \E expected_code \in ExitCodes :
        LET result == check_status_code(context, expected_code)
        IN  /\ context' = result.context
            /\ last' = [step |-> "check_status_code", raised |-> result.raised,
                        streams_ok |-> FALSE, returncode |-> None,
                        argument |-> PyInt(expected_code)]
            /\ UNCHANGED <<pureVars, ageVars, table, captured, launched,
                           history>>

\* a context without attributes
NewContext ==
    [output |-> Missing, stdout |-> Missing, stderr |-> Missing,
     returncode |-> Missing, return_code |-> Missing,
     max_age |-> Missing, cleanup_on_startup |-> Missing,
     return_codes |-> Missing]

\* no flag step has run, no set of exit codes was configured
NoHistory ==
    [age |-> None, previous_age |-> None, cleanup |-> FALSE,
     return_codes |-> Missing]

Init ==
    /\ context = NewContext
    /\ last = NoStep
    /\ captured = None
    /\ launched = None
    /\ history = NoHistory
    /\ table = Idle
    /\ pc = "steps"
    /\ text = Idle /\ partA = Idle /\ partB = Idle
    /\ filtered = Idle /\ refiltered = Idle /\ lines = Idle /\ kept = Idle
    /\ IdleAge

Next ==
    \/ call_process_generated_output
    \/ call_process_ccx_notification_service_output
    \/ step_check_status_code

Spec == Init /\ [][Next]_vars

-----------------------------------------------------------------------------
(* parse_max_age *)

Str(chars) == [t |-> "str", v |-> chars]

Digits == {"0", "1", "2", "3", "4", "5", "6", "7", "8", "9"}

Letters ==
    {"a", "b", "c", "d", "e", "f", "g", "h", "i", "j", "k", "l", "m", "n",
     "o", "p", "q", "r", "s", "t", "u", "v", "w", "x", "y", "z", "A", "B",
     "C", "D", "E", "F", "G", "H", "I", "J", "K", "L", "M", "N", "O", "P",
     "Q", "R", "S", "T", "U", "V", "W", "X", "Y", "Z"}

\* str.isdigit() and str.isalpha() on ASCII text: false on the empty string
isdigit(s) == s # <<>> /\ \A i \in 1..Len(s) : s[i] \in Digits
isalpha(s) == s # <<>> /\ \A i \in 1..Len(s) : s[i] \in Letters

\* what a function did: the value it returned or the exception it raised
Value(value) == [value |-> value, raised |-> "none"]
Exception(exception) == [value |-> None, raised |-> exception]

\* a plausible slip: the quotes are not removed before the split
parse_max_age_keeps_quotes(age) ==
    IF age.t # "str" THEN Exception("AssertionError")
    ELSE LET items == Split(age.v, <<" ">>)
         IN  IF Len(items) # 2 THEN Exception("AssertionError")
             ELSE IF ~isdigit(items[1]) THEN Exception("AssertionError")
             ELSE IF ~isalpha(items[2]) THEN Exception("AssertionError")
             ELSE Value(age)

\* parse_max_age(max_age)
parse_max_age(age) ==
    IF age.t # "str" THEN Exception("AssertionError")
    ELSE LET items == Split(Replace(age.v, <<"\"">>, <<>>), <<" ">>)
         IN  IF Len(items) # 2 THEN Exception("AssertionError")
             ELSE IF ~isdigit(items[1]) THEN Exception("AssertionError")
             ELSE IF ~isalpha(items[2]) THEN Exception("AssertionError")
             ELSE Value(age)

\* the characters the arguments of parse_max_age are made of
AgeChars == {"1", "d", " ", "\""}

RECURSIVE AgeTexts(_)
AgeTexts(n) ==
    IF n = 0
    THEN {<<>>}
    ELSE LET shorter == AgeTexts(n - 1)
         IN  shorter \cup {Append(t, c) : t \in shorter, c \in AgeChars}

\* parsed = parse_max_age(max_age)
call_parse_max_age ==
    /\ pc = "input"
    /\ parsed' = parse_max_age(max_age)
    /\ pc' = "parsed"
    /\ UNCHANGED <<text, partA, partB, filtered, refiltered, lines, kept>>
    /\ UNCHANGED <<max_age, stepVars>>

NextAge == call_parse_max_age

\* every string of at most MaxAgeLen characters, and a value that is no string
InitAge ==
    /\ pc = "input"
    /\ max_age \in {Str(chars) : chars \in AgeTexts(MaxAgeLen)} \cup {PyInt(1)}
    /\ parsed = Idle
    /\ text = Idle /\ partA = Idle /\ partB = Idle
    /\ filtered = Idle /\ refiltered = Idle /\ lines = Idle /\ kept = Idle
    /\ IdleSteps

SpecAge == InitAge /\ [][NextAge]_vars

-----------------------------------------------------------------------------
(* check_logs *)

Row(log, contains) == [log |-> log, contains |-> contains]

\* a plausible slip: a row that is neither "yes" nor "no" is passed over
RECURSIVE check_logs_rows_skipping(_, _, _)
check_logs_rows_skipping(output, rows, i) ==
    IF i > Len(rows) THEN "none"
    ELSE IF rows[i].contains = "yes" /\ ~Contains(output, rows[i].log)
         THEN "AssertionError"
    ELSE IF rows[i].contains = "no" /\ Contains(output, rows[i].log)
         THEN "AssertionError"
    ELSE check_logs_rows_skipping(output, rows, i + 1)

\* the loop of check_logs over the rows of context.table, from row i on
RECURSIVE check_logs_rows(_, _, _)
check_logs_rows(output, rows, i) ==
    IF i > Len(rows) THEN "none"
    ELSE LET log == rows[i].log
             contains == rows[i].contains
         IN  IF contains = "yes"
             THEN IF Contains(output, log)
                  THEN check_logs_rows(output, rows, i + 1)
                  ELSE "AssertionError"
             ELSE IF contains = "no"
             THEN IF ~Contains(output, log)
                  THEN check_logs_rows(output, rows, i + 1)
                  ELSE "AssertionError"
             ELSE "ValueError"

\* check_logs(context), context.table given as rows
check_logs(ctx, rows) ==
    IF ctx.stdout = Missing THEN Raised(ctx, "AttributeError")
    ELSE IF ctx.stdout = None THEN Raised(ctx, "AttributeError")
    ELSE IF ~Decodable(ctx.stdout.v) THEN Raised(ctx, "UnicodeDecodeError")
    ELSE Raised(ctx, check_logs_rows(Decode(ctx.stdout.v), rows, 1))

\* the rows of the tables: a log that is "x" or "warning", and a flag
TableRows ==
    { Row(log, contains) :
        log \in {<<"x">>, SubSeq(COVERAGE_MESSAGE, 1, 7)},
        contains \in {"yes", "no", "maybe"} }

RECURSIVE Tables(_)
Tables(n) ==
    IF n = 0
    THEN {<<>>}
    ELSE LET shorter == Tables(n - 1)
         IN  shorter \cup {Append(t, r) : t \in shorter, r \in TableRows}

\* the step "the logs should match"
step_check_logs ==
    /\ pc = "steps"
    /\ LET result == check_logs(context, table)
       IN  /\ context' = result.context
           /\ last' = [step |-> "check_logs", raised |-> result.raised,
                       streams_ok |-> FALSE, returncode |-> None,
                       argument |-> None]
    /\ pc' = "checked"
    /\ UNCHANGED <<text, partA, partB, filtered, refiltered, lines, kept>>
    /\ UNCHANGED <<ageVars, table, captured, launched, history>>

NextLogs == step_check_logs

\* the contexts a successful capture of a process leaves
CapturedContexts ==
    LET results ==
            { process_ccx_notification_service_output(
                  NewContext, Popen(Bytes(b), None, 0), List(<<4, 5, 9>>)) :
              b \in ByteTexts(MaxOutPieces) }
    IN  {r.context : r \in {q \in results : q.raised = "none"}}

\* the step runs on a new context or after a capture, with every table of at
\* most MaxRows rows
InitLogs ==
    /\ pc = "steps"
    /\ context \in {NewContext} \cup CapturedContexts
    /\ table \in Tables(MaxRows)
    /\ last = NoStep
    /\ captured = (IF context = NewContext THEN None ELSE PyInt(0))
    /\ launched = None
    /\ history = NoHistory
    /\ text = Idle /\ partA = Idle /\ partB = Idle
    /\ filtered = Idle /\ refiltered = Idle /\ lines = Idle /\ kept = Idle
    /\ IdleAge

SpecLogs == InitLogs /\ [][NextLogs]_vars

-----------------------------------------------------------------------------
(* What the claims about the steps speak of *)

CaptureSteps ==
    {"process_generated_output", "process_ccx_notification_service_output"}

\* the exit code of the process is 0 or one the caller named acceptable
ExitCodeAccepted(step) ==
    \/ step.returncode = PyInt(0)
    \/ step.argument.t = "int" /\ step.argument = step.returncode
    \/ step.argument.t = "list" /\ InList(step.returncode.v, step.argument.v)

(* C5: after a successful capture step, of either kind, the list in
   context.output has no element equal to the Coverage Marker Line. *)
C5_CapturedOutputHasNoMarkerLine ==
    (last.step \in CaptureSteps /\ last.raised = "none") =>
        \A i \in 1..Len(context.output.v) :
            context.output.v[i] # COVERAGE_MESSAGE

(* C6: a capture step, of either kind, whose process wrote its streams as
   expected succeeds if the exit code is 0 or one of the acceptable codes of
   the caller, and fails with an assertion error for every other exit code,
   also when the caller names no acceptable code. *)
C6_ExitCodeDecidesTheCapture ==
    (last.step \in CaptureSteps /\ last.streams_ok) =>
        IF ExitCodeAccepted(last)
        THEN last.raised = "none"
        ELSE last.raised = "AssertionError"

(* C9: once a capture step has succeeded, check_status_code(expected_code)
   passes if and only if expected_code is the exit code of the process
   captured last, whichever capture operation recorded it. *)
C9_StatusCheckSeesTheLastProcess ==
    (last.step = "check_status_code" /\ captured # None) =>
        (last.raised = "none" <=> last.argument = captured)

\* s without its double quotes
Unquoted(s) == LET NotQuote(c) == c # "\"" IN SelectSeq(s, NotQuote)

\* s is digits, one space, letters: two space-separated tokens, the first
\* all digits and the second all alphabetic
DigitsSpaceLetters(s) ==
    \E k \in 2..(Len(s) - 1) :
        /\ s[k] = " "
        /\ \A i \in 1..(k - 1) : s[i] \in Digits
        /\ \A i \in (k + 1)..Len(s) : s[i] \in Letters

(* C7 as stated: parse_max_age accepts a value only if it is two
   space-separated tokens, digits then letters; it rejects every other
   string and returns an accepted value unchanged. *)
C7_AcceptsDigitsSpaceLetters ==
    pc = "parsed" =>
        IF max_age.t = "str" /\ DigitsSpaceLetters(max_age.v)
        THEN parsed = Value(max_age)
        ELSE parsed = Exception("AssertionError")

(* C7 as amended: parse_max_age accepts a value only if it is a string that,
   once its double quotes are deleted, is two space-separated tokens, digits
   then letters; it rejects every other value with an assertion error and
   returns an accepted value unchanged, quotes included. *)
C7_AcceptsQuotedDigitsSpaceLetters ==
    pc = "parsed" =>
        IF max_age.t = "str" /\ DigitsSpaceLetters(Unquoted(max_age.v))
        THEN parsed = Value(max_age)
        ELSE parsed = Exception("AssertionError")

\* a quoted age has been accepted and returned with its quotes
C7_Witness ==
    /\ pc = "parsed"
    /\ max_age = Str(<<"\"", "1", " ", "d", "\"">>)
    /\ parsed = Value(max_age)

YesOrNo(row) == row.contains \in {"yes", "no"}

\* what a "yes" or "no" row asks of the output
RowHolds(row, output) ==
    IF row.contains = "yes"
    THEN Contains(output, row.log)
    ELSE ~Contains(output, row.log)

\* the rows before row k are "yes" or "no" rows that hold
RowsBeforeHold(rows, k, output) ==
    \A j \in 1..(k - 1) : YesOrNo(rows[j]) /\ RowHolds(rows[j], output)

(* C8 as stated: check_logs raises ValueError for every table with a row
   that is neither "yes" nor "no", whatever its other rows and their order;
   a table of "yes" and "no" rows passes iff every row holds of the decoded
   stdout. *)
C8_BadRowAlwaysRaisesValueError ==
    (last.step = "check_logs" /\ context.stdout # Missing) =>
        LET output == Decode(context.stdout.v)
        IN  IF \E k \in 1..Len(table) : ~YesOrNo(table[k])
            THEN last.raised = "ValueError"
            ELSE last.raised = "none" <=>
                    \A k \in 1..Len(table) : RowHolds(table[k], output)

(* C8 as amended: check_logs raises ValueError exactly when the table has a
   row that is neither "yes" nor "no" and every row before the first such
   row holds; when a "yes" or "no" row fails before it, the assertion of
   that row fails instead. A table of "yes" and "no" rows passes iff every
   row holds of the decoded stdout. *)
C8_FirstFailingRowDecides ==
    (last.step = "check_logs" /\ context.stdout # Missing) =>
        LET output == Decode(context.stdout.v)
        IN  /\ last.raised = "ValueError" <=>
                  \E k \in 1..Len(table) :
                      ~YesOrNo(table[k]) /\ RowsBeforeHold(table, k, output)
            /\ last.raised = "AssertionError" <=>
                  \E k \in 1..Len(table) :
                      /\ YesOrNo(table[k])
                      /\ ~RowHolds(table[k], output)
                      /\ RowsBeforeHold(table, k, output)
            /\ last.raised = "none" <=>
                  \A k \in 1..Len(table) :
                      YesOrNo(table[k]) /\ RowHolds(table[k], output)

\* a table whose second row is neither "yes" nor "no", and whose first row
\* holds, has raised ValueError
C8_Witness ==
    /\ last.step = "check_logs"
    /\ context.stdout # Missing
    /\ Len(table) = 2
    /\ table[1].contains = "yes"
    /\ ~YesOrNo(table[2])
    /\ last.raised = "ValueError"

-----------------------------------------------------------------------------
(* What the claims about failing captures and about the start step speak of *)

\* the attribute a capture operation records the exit code in
ExitCodeField(ctx, step) ==
    IF step = "process_generated_output" THEN ctx.return_code
    ELSE ctx.returncode

(* C11: a capture step that fails on one of its checks leaves output,
   stdout, stderr and the exit code of the context as they were, unset or as
   the capture that succeeded before left them; a capture step writes the
   four of them, and does so only when every check has passed. *)
C11_FailedCaptureLeavesTheContext ==
    [][last'.step \in CaptureSteps =>
          IF last'.raised # "none"
          THEN context' = context
          ELSE /\ last'.streams_ok
               /\ context'.output.t = "list"
               /\ context'.stdout.t = "bytes"
               /\ context'.stderr = None
               /\ ExitCodeField(context', last'.step) = last'.returncode]_vars

\* a capture has failed on the exit code of its process after another
\* process was captured, and the context still holds that one's results
C11_Witness ==
    /\ last.step \in CaptureSteps
    /\ last.raised = "AssertionError"
    /\ last.streams_ok
    /\ captured # None
    /\ last.returncode # captured
    /\ context.stdout.t = "bytes"
    /\ ExitCodeField(context, last.step) = captured

-----------------------------------------------------------------------------
(* The flag steps and the start of the CCX Notification Service *)

\* "ccx-notification-service"
ServiceBinary ==
    <<"c", "c", "x", "-", "n", "o", "t", "i", "f", "i", "c", "a", "t",
      "i", "o", "n", "-", "s", "e", "r", "v", "i", "c", "e">>

\* "--max-age="
MaxAgeOption ==
    <<"-", "-", "m", "a", "x", "-", "a", "g", "e", "=">>

\* "--cleanup-on-startup"
CleanupOption ==
    <<"-", "-", "c", "l", "e", "a", "n", "u", "p", "-", "o", "n", "-",
      "s", "t", "a", "r", "t", "u", "p">>

\* store_max_age_flag(context, age)
store_max_age_flag(ctx, age) ==
    Returned([ctx EXCEPT !.max_age = age])

\* store_cleanup_flag(context)
store_cleanup_flag(ctx) ==
    Returned([ctx EXCEPT !.cleanup_on_startup = Str(CleanupOption)])

\* a plausible slip: the cleanup flag is appended before the max-age flag
start_params_cleanup_first(ctx, flag) ==
    <<ServiceBinary, flag>>
        \o (IF ctx.cleanup_on_startup # Missing
            THEN <<ctx.cleanup_on_startup.v>> ELSE <<>>)
        \o (IF ctx.max_age # Missing
            THEN <<MaxAgeOption \o ctx.max_age.v>> ELSE <<>>)

\* params of start_ccx_notification_service_with_flag
start_params(ctx, flag) ==
    <<ServiceBinary, flag>>
        \o (IF ctx.max_age # Missing
            THEN <<MaxAgeOption \o ctx.max_age.v>> ELSE <<>>)
        \o (IF ctx.cleanup_on_startup # Missing
            THEN <<ctx.cleanup_on_startup.v>> ELSE <<>>)

\* the context once start_ccx_notification_service_with_flag has looked at
\* context.return_codes
with_return_codes(ctx) ==
    IF ctx.return_codes = Missing
    THEN [ctx EXCEPT !.return_codes = List(<<4, 5, 9>>)]
    ELSE ctx

\* subprocess.Popen could not start the binary
NotStarted == [t |-> "FileNotFoundError", v |-> <<>>]

\* start_ccx_notification_service_with_flag(context, flag), out being what
\* subprocess.Popen gives for params and the environment of the step
start_ccx_notification_service_with_flag(ctx, flag, out) ==
    IF out = NotStarted
    THEN Raised(with_return_codes(ctx), "FileNotFoundError")
    ELSE process_ccx_notification_service_output(
             with_return_codes(ctx), out, with_return_codes(ctx).return_codes)

\* the ages of the max-age steps of a scenario; the last is no Age
StepAges ==
    { <<"1", " ", "d">>, <<"1", "1", " ", "d">>,
      <<"\"", "1", " ", "d", "\"">>, <<"d", " ", "1">> }

\* the flags of the start steps of a scenario: "--show-version" and
\* "--instant-reports"
StepFlags ==
    {
      <<"-", "-", "s", "h", "o", "w", "-", "v", "e", "r", "s", "i", "o",
        "n">>,
      <<"-", "-", "i", "n", "s", "t", "a", "n", "t", "-", "r", "e", "p",
        "o", "r", "t", "s">> }

\* what subprocess.Popen gives with stdout=PIPE and stderr=STDOUT: a process
\* whose stderr stream is None, or no process
StartedProcesses ==
    {NotStarted} \cup
    { Popen(Bytes(b), None, returncode) :
        b \in ByteTexts(MaxOutPieces), returncode \in ExitCodes }

\* sets of exit codes configured for a test before its steps
ConfiguredReturnCodes == {Missing, List(<<>>), List(<<1>>)}

\* the step "max-age {age:Age} command line flag is specified"; the step
\* runs when parse_max_age, the parser of Age, accepts the text
step_store_max_age_flag ==
    \E age \in StepAges :
        /\ parse_max_age(Str(age)).raised = "none"
        /\ LET result == store_max_age_flag(context,
                                            parse_max_age(Str(age)).value)
           IN  /\ context' = result.context
               /\ last' = [step |-> "store_max_age_flag",
                           raised |-> result.raised, streams_ok |-> FALSE,
                           returncode |-> None, argument |-> Str(age)]
        /\ history' = [history EXCEPT !.age = Str(age),
                                      !.previous_age = history.age]
        /\ UNCHANGED <<pureVars, ageVars, table, captured, launched>>

\* the step "cleanup-on-startup command line flag is specified"
step_store_cleanup_flag ==
    /\ LET result == store_cleanup_flag(context)
       IN  /\ context' = result.context
           /\ last' = [step |-> "store_cleanup_flag",
                       raised |-> result.raised, streams_ok |-> FALSE,
                       returncode |-> None, argument |-> None]
    /\ history' = [history EXCEPT !.cleanup = TRUE]
    /\ UNCHANGED <<pureVars, ageVars, table, captured, launched>>

\* the step "I start the CCX Notification Service with the {flag} command
\* line flag"
step_start_ccx_notification_service_with_flag ==
    \E flag \in StepFlags, out \in StartedProcesses :
        LET result ==
                start_ccx_notification_service_with_flag(context, flag, out)
        IN  /\ context' = result.context
            /\ launched' = List(start_params(context, flag))
            /\ last' = [step |-> "start_ccx_notification_service_with_flag",
                        raised |-> result.raised,
                        streams_ok |-> (IF out = NotStarted THEN FALSE
                                        ELSE StreamsAsExpected(out)),
                        returncode |-> (IF out = NotStarted THEN None
                                        ELSE ExitCodeOf(out)),
                        argument |-> Str(flag)]
            /\ captured' = IF result.raised = "none"
                           THEN ExitCodeOf(out) ELSE captured
            /\ UNCHANGED <<pureVars, ageVars, table, history>>

NextStart ==
    \/ step_store_max_age_flag
    \/ step_store_cleanup_flag
    \/ step_start_ccx_notification_service_with_flag

\* a new context, with or without a configured set of exit codes
InitStart ==
    /\ \E configured \in ConfiguredReturnCodes :
          /\ context = [NewContext EXCEPT !.return_codes = configured]
          /\ history = [NoHistory EXCEPT !.return_codes = configured]
    /\ last = NoStep
    /\ captured = None
    /\ launched = None
    /\ table = Idle
    /\ pc = "steps"
    /\ text = Idle /\ partA = Idle /\ partB = Idle
    /\ filtered = Idle /\ refiltered = Idle /\ lines = Idle /\ kept = Idle
    /\ IdleAge

SpecStart == InitStart /\ [][NextStart]_vars

-----------------------------------------------------------------------------
(* What the claim about the flag steps and the start step speaks of *)

\* the arguments a start with this flag is to launch, from the steps so far
ExpectedParams(flag) ==
    <<ServiceBinary, flag>>
        \o (IF history.age # None
            THEN <<MaxAgeOption \o history.age.v>> ELSE <<>>)
        \o (IF history.cleanup THEN <<CleanupOption>> ELSE <<>>)

(* C12: in any sequence of the max-age step, the cleanup step and the start
   step on one context, a start launches "ccx-notification-service" and its
   flag, then "--max-age=" with the age stored last if and only if a max-age
   step ran before, then "--cleanup-on-startup" if and only if the cleanup
   step ran before; no step clears a stored flag; and the acceptable exit
   codes are those configured for the test if there are any, and 4, 5, 9
   from the first start on if there are none. *)
C12_StartLaunchesTheStoredFlags ==
    /\ last.step = "start_ccx_notification_service_with_flag" =>
           launched = List(ExpectedParams(last.argument.v))
    /\ context.max_age =
           (IF history.age = None THEN Missing ELSE history.age)
    /\ context.cleanup_on_startup =
           (IF history.cleanup THEN Str(CleanupOption) ELSE Missing)
    /\ context.return_codes =
           (IF history.return_codes # Missing THEN history.return_codes
            ELSE IF launched # None THEN List(<<4, 5, 9>>)
            ELSE Missing)

\* a start after two max-age steps with different ages and the cleanup step,
\* on a context configured to accept exit code 1 only, ends with exit code 4
C12_Witness ==
    /\ last.step = "start_ccx_notification_service_with_flag"
    /\ history.age # None
    /\ history.previous_age # None
    /\ history.previous_age # history.age
    /\ history.cleanup
    /\ Len(launched.v) = 4
    /\ history.return_codes = List(<<1>>)
    /\ last.returncode = PyInt(4)
    /\ last.raised = "AssertionError"

=============================================================================
